---- MODULE Spec2Model ----
(***************************************************************************)
(* Refund signal handling of lms/djangoapps/commerce/signals.py.           *)
(*                                                                         *)
(* One behaviour is the handling of one signal (REFUND_ORDER or            *)
(* REFUND_ENTITLEMENT) from dispatch to the return of the receiver.  Every *)
(* call to a collaborator is one step whose outcome (a value or a raised   *)
(* exception) is chosen nondeterministically; the Python control flow      *)
(* between two such calls is part of the step that makes the call.         *)
(***************************************************************************)
EXTENDS Integers, Sequences, FiniteSets, TLC

\* ------------------------------------------------------------------ bounds
MaxRefunds == 2
MaxRefundId == 2
MaxTags == 3

\* --------------------------------------------------------------- constants
HTTP_CREATED == 201

\* ------------------------------------------------------------ value spaces
Users == {"alice", "bob"}
None == "None"
AnonymousUser == "AnonymousUser"
ECOMMERCE_SERVICE_WORKER_USERNAME == "ecommerce_worker"
Modes == {"verified", "honor"}
NoProduct == [present |-> FALSE, user |-> None, mode |-> None]
Products == {[present |-> TRUE, user |-> u, mode |-> m] : u \in Users, m \in Modes}
RefundIds == 1..MaxRefundId
RECURSIVE SeqsUpTo(_, _)
SeqsUpTo(S, n) ==
    IF n = 0 THEN {<<>>}
    ELSE LET shorter == SeqsUpTo(S, n - 1)
         IN shorter \cup {Append(s, x) : s \in {t \in shorter : Len(t) = n - 1}, x \in S}
RefundLists == SeqsUpTo(RefundIds, MaxRefunds)
StatusCodes == {200, HTTP_CREATED, 500}
TagNames == {"auto_refund", "LMS", "billing"}
TagLists == SeqsUpTo(TagNames, MaxTags)
NoRoot == [origin |-> "unset", path |-> <<>>]

NoResult == [kind |-> "none", ids |-> <<>>]
Raised == [kind |-> "raised", ids |-> <<>>]
Returned(ids) == [kind |-> "list", ids |-> ids]
NoResponse == [kind |-> "unset", status |-> 0]
TransportError == [kind |-> "raise", status |-> 0]
Response(s) == [kind |-> "response", status |-> s]

VARIABLES
    pc,                         \* position in the receiver's call tree
    handler,                    \* "order" | "entitlement": the receiver running
    product,                    \* course_enrollment / course_entitlement
    config_flag,                \* CommerceConfiguration.enable_automatic_refund_approval (stored)
    configured,                 \* outcome of is_commerce_service_configured()
    refundable,                 \* outcome of refundable() / is_entitlement_refundable()
    resolved,                   \* outcome of get_request_user()
    request_user,               \* local request_user of the receiver
    client_user,                \* user the api_client is authenticated as
    opened,                     \* outcome of api_client.refunds.post: "returned" | "raise"
    refund_ids,                 \* local refund_ids of refund_seat / refund_entitlement
    auto_approve,               \* config.enable_automatic_refund_approval as read
    idx,                        \* position of the for loop of _process_refund
    approved,                   \* outcome of each approve call made, in call order
    refunds_requiring_approval, \* local of _process_refund
    openCalls,                  \* payloads posted to api_client.refunds
    approveCalls,               \* refund ids put to .process, in call order
    notifyCalls,                \* refund id lists given to send_refund_notification
    ticketCalls,                \* tickets posted to Zendesk
    configReads,                \* number of CommerceConfiguration.current() calls
    themed,                     \* outcome of is_request_in_themed_site()
    zendesk,                    \* whether ZENDESK_URL, _USER and _API_KEY are all set
    url_root,                   \* ECOMMERCE_PUBLIC_URL_ROOT as looked up at line 288
    caller_tags,                \* the list the caller of create_zendesk_ticket passes as tags
    ticket,                     \* ticket under construction in create_zendesk_ticket
    response,                   \* outcome of requests.post
    logs,                       \* log records emitted, in order
    outcome,                    \* "running" | "returned" | "raised": how the receiver ended
    result                      \* return value of refund_seat / refund_entitlement

calls == <<openCalls, approveCalls, notifyCalls, ticketCalls, configReads>>
gateVars == <<configured, refundable, resolved, request_user, client_user>>
processVars == <<opened, refund_ids, auto_approve, idx, approved, refunds_requiring_approval>>
notifyVars == <<themed, zendesk, url_root, caller_tags, ticket, response>>
vars == <<pc, handler, product, config_flag, gateVars, processVars, calls,
          notifyVars, logs, outcome, result>>

Unset == "unset"

Init ==
    /\ pc = "idle"
    /\ handler = Unset
    /\ product = NoProduct
    /\ config_flag \in BOOLEAN
    /\ configured = Unset
    /\ refundable = Unset
    /\ resolved = Unset
    /\ request_user = Unset
    /\ client_user = Unset
    /\ opened = Unset
    /\ refund_ids = <<>>
    /\ auto_approve = Unset
    /\ idx = 0
    /\ approved = <<>>
    /\ refunds_requiring_approval = <<>>
    /\ openCalls = <<>>
    /\ approveCalls = <<>>
    /\ notifyCalls = <<>>
    /\ ticketCalls = <<>>
    /\ configReads = 0
    /\ themed = Unset
    /\ zendesk \in {"true", "false"}
    /\ url_root = NoRoot
    /\ caller_tags = <<>>
    /\ ticket = <<>>
    /\ response = NoResponse
    /\ logs = <<>>
    /\ outcome = "running"
    /\ result = NoResult

\* ------------------------------------------------------- ends of a receiver
\* The receiver returns to the signal dispatcher.
Return(res, newLogs) ==
    /\ pc' = "done"
    /\ outcome' = "returned"
    /\ result' = res
    /\ logs' = logs \o newLogs

\* An exception raised inside the try block of the receiver (lines 49-57, 71-81).
CaughtByHandler(newLogs) ==
    Return(Raised, newLogs \o <<"exception:unexpected">>)

\* An exception raised outside the try block leaves the receiver.
Escapes ==
    /\ pc' = "done"
    /\ outcome' = "raised"
    /\ UNCHANGED <<result, logs>>

\* ------------------------------------------------------------ the signals
\* REFUND_ORDER.send(course_enrollment=p) / REFUND_ENTITLEMENT.send(course_entitlement=p)
Send(h, p) ==
    /\ pc = "idle"
    /\ handler' = h
    /\ product' = p
    /\ pc' = "configured"
    /\ UNCHANGED <<config_flag, gateVars, processVars, calls, notifyVars, logs, outcome, result>>

\* mutation: the configuration check is dropped
NotConfigured_never(c) == FALSE

\* if not is_commerce_service_configured(): return
NotConfigured(c) == c = "false"

\* line 35 / 63, outside the try block
CheckConfigured(c) ==
    /\ pc = "configured"
    /\ configured' = c
    /\ IF c = "raise" THEN Escapes
       ELSE IF NotConfigured(c) THEN Return(NoResult, <<>>)
       ELSE /\ pc' = "refundable"
            /\ UNCHANGED <<outcome, result, logs>>
    /\ UNCHANGED <<handler, product, config_flag, refundable, resolved, request_user,
                   client_user, processVars, calls, notifyVars>>

\* if course_enrollment and course_enrollment.refundable():
Eligible(p, r) == p.present /\ r = "true"

\* line 38 / 66: a None product short-circuits the `and`, so the predicate is
\* not called and the receiver returns
CheckRefundable(r) ==
    /\ pc = "refundable"
    /\ IF product.present
       THEN /\ refundable' = r
            /\ IF r = "raise" THEN Escapes
               ELSE IF Eligible(product, r)
                    THEN pc' = "user" /\ UNCHANGED <<outcome, result, logs>>
                    ELSE Return(NoResult, <<>>)
       ELSE /\ r = "false"
            /\ UNCHANGED refundable
            /\ Return(NoResult, <<>>)
    /\ UNCHANGED <<handler, product, config_flag, configured, resolved, request_user,
                   client_user, processVars, calls, notifyVars>>

\* request_user = get_request_user() or course_enrollment.user
ActingUser(u, owner) == IF u = None THEN owner ELSE u

\* mutation: the anonymous placeholder is not recognised
IsAnonymous_never(u) == FALSE

\* isinstance(request_user, AnonymousUser)
IsAnonymous(u) == u = AnonymousUser

\* handle_refund_order, lines 40-48: resolve the acting user, then refund_seat
OrderResolveUser(u) ==
    /\ pc = "user"
    /\ handler = "order"
    /\ resolved' = u
    /\ IF u = "raise"
       THEN /\ CaughtByHandler(<<>>)
            /\ UNCHANGED request_user
       ELSE /\ request_user' = ActingUser(u, product.user)
            /\ IF IsAnonymous(request_user')
               THEN Return(NoResult, <<>>)
               ELSE pc' = "client" /\ UNCHANGED <<outcome, result, logs>>
    /\ UNCHANGED <<handler, product, config_flag, configured, refundable, client_user,
                   processVars, calls, notifyVars>>

\* mutation: any resolved user may refund the entitlement
EntitlementAllowed_anyone(u, owner) == u # None

\* if request_user and course_entitlement.user == request_user:
EntitlementAllowed(u, owner) == u # None /\ owner = u

\* handle_refund_entitlement, lines 68-70
EntitlementResolveUser(u) ==
    /\ pc = "user"
    /\ handler = "entitlement"
    /\ resolved' = u
    /\ IF u = "raise"
       THEN /\ CaughtByHandler(<<>>)
            /\ UNCHANGED request_user
       ELSE /\ request_user' = u
            /\ IF EntitlementAllowed(u, product.user)
               THEN pc' = "client" /\ UNCHANGED <<outcome, result, logs>>
               ELSE Return(NoResult, <<>>)
    /\ UNCHANGED <<handler, product, config_flag, configured, refundable, client_user,
                   processVars, calls, notifyVars>>

\* service_user = User.objects.get(username=...); api_client = ecommerce_api_client(service_user)
ConstructClient(ok) ==
    /\ pc = "client"
    /\ IF ok
       THEN /\ client_user' = ECOMMERCE_SERVICE_WORKER_USERNAME
            /\ pc' = "post"
            /\ logs' = Append(logs, "info:attempting_refund")
            /\ UNCHANGED <<outcome, result>>
       ELSE /\ CaughtByHandler(<<>>)
            /\ UNCHANGED client_user
    /\ UNCHANGED <<handler, product, config_flag, configured, refundable, resolved,
                   request_user, processVars, calls, notifyVars>>

\* mutation: the refund is requested in the name of the acting user
RefundPayload_actor(h, p) ==
    IF h = "order"
    THEN [fields |-> {"course_id", "username"}, username |-> request_user]
    ELSE [fields |-> {"order_number", "username", "entitlement_uuid"}, username |-> request_user]

\* the dict posted to api_client.refunds: lines 171 and 206-212
RefundPayload(h, p) ==
    IF h = "order"
    THEN [fields |-> {"course_id", "username"}, username |-> p.user]
    ELSE [fields |-> {"order_number", "username", "entitlement_uuid"}, username |-> p.user]

\* mutation: an empty list of refunds is processed like any other
Truthy_always(ids) == TRUE

\* if refund_ids:
Truthy(ids) == ids # <<>>

\* refund_ids = api_client.refunds.post(...) returned ids
OpenRefund(ids) ==
    /\ pc = "post"
    /\ openCalls' = Append(openCalls, [payload |-> RefundPayload(handler, product),
                                       auth |-> client_user])
    /\ opened' = "returned"
    /\ refund_ids' = ids
    /\ IF Truthy(ids)
       THEN /\ pc' = "config"
            /\ logs' = Append(logs, "info:refund_opened")
            /\ UNCHANGED <<outcome, result>>
       ELSE Return(Returned(ids), <<"info:no_refund_opened">>)
    /\ UNCHANGED <<handler, product, config_flag, gateVars, auto_approve, idx, approved,
                   refunds_requiring_approval, approveCalls, notifyCalls, ticketCalls,
                   configReads, notifyVars>>

\* api_client.refunds.post(...) raised
OpenRefundFails ==
    /\ pc = "post"
    /\ openCalls' = Append(openCalls, [payload |-> RefundPayload(handler, product),
                                       auth |-> client_user])
    /\ opened' = "raise"
    /\ CaughtByHandler(<<>>)
    /\ UNCHANGED <<handler, product, config_flag, gateVars, refund_ids, auto_approve, idx,
                   approved, refunds_requiring_approval, approveCalls,
                   notifyCalls, ticketCalls, configReads, notifyVars>>

\* mutation: with automatic approval disabled no refund is kept for approval
RequiringWhenDisabled_none(ids) == <<>>

\* else: refunds_requiring_approval = refund_ids
RequiringWhenDisabled(ids) == ids

Flag(b) == IF b THEN "true" ELSE "false"

\* _process_refund, lines 100-103 and 115-116
ReadConfig(ok) ==
    /\ pc = "config"
    /\ configReads' = configReads + 1
    /\ IF ok
       THEN /\ auto_approve' = Flag(config_flag)
            /\ IF config_flag
               THEN /\ refunds_requiring_approval' = <<>>
                    /\ idx' = 1
                    /\ pc' = IF Len(refund_ids) = 0 THEN "gate" ELSE "approve"
               ELSE /\ refunds_requiring_approval' = RequiringWhenDisabled(refund_ids)
                    /\ pc' = "gate"
                    /\ UNCHANGED idx
            /\ UNCHANGED <<outcome, result, logs>>
       ELSE /\ CaughtByHandler(<<>>)
            /\ UNCHANGED <<auto_approve, idx, refunds_requiring_approval>>
    /\ UNCHANGED <<handler, product, config_flag, gateVars, opened, refund_ids, approved,
                   openCalls, approveCalls, notifyCalls, ticketCalls, notifyVars>>

\* mutation: every attempted refund is kept for approval
AppendOnFailure_always(req, id, ok) == Append(req, id)

\* except: ... refunds_requiring_approval.append(refund_id)
AppendOnFailure(req, id, ok) == IF ok THEN req ELSE Append(req, id)

\* mutation: a failed approval ends the loop
NextIndex_abort(i, n, ok) == IF ok THEN i + 1 ELSE n + 1

\* the for loop moves to the next refund id whatever the attempt's outcome
NextIndex(i, n, ok) == i + 1

\* mutation: the flag is looked up again for every refund, and a refund met
\* while it is off is kept for approval without an attempt
Approve_rereads(ok) ==
    /\ pc = "approve"
    /\ idx <= Len(refund_ids)
    /\ configReads' = configReads + 1
    /\ IF config_flag
       THEN /\ approveCalls' = Append(approveCalls, refund_ids[idx])
            /\ approved' = Append(approved, ok)
            /\ refunds_requiring_approval' =
                   AppendOnFailure(refunds_requiring_approval, refund_ids[idx], ok)
            /\ logs' = Append(logs, IF ok THEN "info:refund_approved"
                                           ELSE "exception:approval_failed")
       ELSE /\ ~ok
            /\ refunds_requiring_approval' = Append(refunds_requiring_approval, refund_ids[idx])
            /\ UNCHANGED <<approveCalls, approved, logs>>
    /\ idx' = idx + 1
    /\ pc' = IF idx' > Len(refund_ids) THEN "gate" ELSE "approve"
    /\ UNCHANGED <<handler, product, config_flag, gateVars, opened, refund_ids, auto_approve,
                   openCalls, notifyCalls, ticketCalls, notifyVars, outcome, result>>

\* one iteration of the for loop, lines 105-114
Approve(ok) ==
    /\ pc = "approve"
    /\ idx <= Len(refund_ids)
    /\ approveCalls' = Append(approveCalls, refund_ids[idx])
    /\ approved' = Append(approved, ok)
    /\ refunds_requiring_approval' =
           AppendOnFailure(refunds_requiring_approval, refund_ids[idx], ok)
    /\ logs' = Append(logs, IF ok THEN "info:refund_approved"
                                   ELSE "exception:approval_failed")
    /\ idx' = NextIndex(idx, Len(refund_ids), ok)
    /\ pc' = IF idx' > Len(refund_ids) THEN "gate" ELSE "approve"
    /\ UNCHANGED <<handler, product, config_flag, gateVars, opened, refund_ids, auto_approve,
                   openCalls, notifyCalls, ticketCalls, configReads, notifyVars,
                   outcome, result>>

\* mutation: the mode of the product is not looked at
NotifyDecision_anymode(req, mode) == IF req = <<>> THEN "none" ELSE "notify"

\* lines 118, 124, 139: what is done about notification
NotifyDecision(req, mode) ==
    IF req = <<>> THEN "none"
    ELSE IF mode # "verified" THEN "skip"
    ELSE "notify"

\* mutation: support is told about every opened refund
NotifiedIds_all(req, ids) == ids

\* send_refund_notification(course_product, refunds_requiring_approval)
NotifiedIds(req, ids) == req

\* _process_refund, lines 118-141, up to the call of send_refund_notification
Gate ==
    /\ pc = "gate"
    /\ LET d == NotifyDecision(refunds_requiring_approval, product.mode)
       IN  IF d = "notify"
           THEN /\ notifyCalls' = Append(notifyCalls,
                                       NotifiedIds(refunds_requiring_approval, refund_ids))
                /\ pc' = "themed"
                /\ UNCHANGED <<outcome, result, logs>>
           ELSE /\ Return(Returned(refund_ids),
                          IF d = "skip" THEN <<"info:skipping_notification">> ELSE <<>>)
                /\ UNCHANGED notifyCalls
    /\ UNCHANGED <<handler, product, config_flag, gateVars, processVars, openCalls,
                   approveCalls, ticketCalls, configReads, notifyVars>>

\* mutation: a failure of the notification is not caught in _process_refund
NotificationFailed_propagates == CaughtByHandler(<<>>)

\* except: log.warning('Could not send email notification for refund.')
NotificationFailed == Return(Returned(refund_ids), <<"warning:could_not_send">>)

\* mutation: themed sites are notified like any other
RaisesNotImplemented_never(t) == FALSE

\* if theming_helpers.is_request_in_themed_site(): raise NotImplementedError(...)
RaisesNotImplemented(t) == t = "true"

\* send_refund_notification, lines 300-304
CheckThemed(t) ==
    /\ pc = "themed"
    /\ themed' = t
    /\ caller_tags' = <<"auto_refund">>
    /\ IF t = "raise" \/ RaisesNotImplemented(t)
       THEN NotificationFailed
       ELSE pc' = "body" /\ UNCHANGED <<outcome, result, logs>>
    /\ UNCHANGED <<handler, product, config_flag, gateVars, processVars, calls,
                   zendesk, url_root, ticket, response>>

\* ECOMMERCE_PUBLIC_URL_ROOT values
UrlRoots == {[origin |-> "https://ecommerce", path |-> <<>>],
             [origin |-> "https://ecommerce", path |-> <<"shop">>]}

\* urljoin(root, '/dashboard/refunds/{}/'.format(refund_id)): an absolute
\* path replaces the path of the base
RefundUrl(root, id) ==
    [origin |-> root.origin, path |-> <<"dashboard", "refunds">>, id |-> id]

\* generate_refund_notification_body: one url per refund id, in order
generate_refund_notification_body(student, root, ids) ==
    [student |-> student, urls |-> [i \in 1..Len(ids) |-> RefundUrl(root, ids[i])]]

\* send_refund_notification, lines 306-310, up to the call of create_zendesk_ticket
BuildNotification(ok, root) ==
    /\ pc = "body"
    /\ IF ok
       THEN /\ url_root' = root
            /\ ticket' = <<[requester |-> product.user,
                            body |-> generate_refund_notification_body(
                                         product.user, root, notifyCalls[Len(notifyCalls)]),
                            tags |-> caller_tags]>>
            /\ pc' = "zendesk"
            /\ UNCHANGED <<outcome, result, logs>>
       ELSE /\ root = CHOOSE r \in UrlRoots : TRUE
            /\ NotificationFailed
            /\ UNCHANGED <<url_root, ticket>>
    /\ UNCHANGED <<handler, product, config_flag, gateVars, processVars, calls,
                   themed, zendesk, caller_tags, response>>

ToSet(s) == {s[i] : i \in 1..Len(s)}

\* tags = list(tags or []); tags.append('LMS'); set(tags)
TicketTags(tags) == ToSet(Append(tags, "LMS"))

\* the lists that list(S) can be: the members of S once each, in any order
Orderings(S) ==
    {f \in [1..Cardinality(S) -> S] : \A i, j \in 1..Cardinality(S) : f[i] = f[j] => i = j}

\* mutation: the duplicates are not removed
TicketTagLists_keepsDuplicates(tags) == {Append(tags, "LMS")}

\* lines 240-245: the values the local tags can have after list(set(tags))
TicketTagLists(tags) == Orderings(TicketTags(tags))

\* mutation: the settings are not looked at
ZendeskConfigured_always(z) == TRUE

\* settings.ZENDESK_URL and settings.ZENDESK_USER and settings.ZENDESK_API_KEY
ZendeskConfigured(z) == z = "true"

\* create_zendesk_ticket, lines 236-266; the tags are copied (line 241), so the
\* caller's list stays as it is
CheckZendesk ==
    /\ pc = "zendesk"
    /\ IF ZendeskConfigured(zendesk)
       THEN /\ \E tags \in TicketTagLists(ticket[1].tags) :
                   ticket' = <<[requester |-> ticket[1].requester,
                                body |-> ticket[1].body,
                                tags |-> tags]>>
            /\ pc' = "ticket_post"
            /\ UNCHANGED <<outcome, result, logs>>
       ELSE /\ Return(Returned(refund_ids), <<"debug:zendesk_not_configured">>)
            /\ UNCHANGED ticket
    /\ UNCHANGED <<handler, product, config_flag, gateVars, processVars, calls,
                   themed, zendesk, url_root, caller_tags, response>>

\* mutation: any 2xx status counts as success
IsCreated_any2xx(r) == r.kind = "response" /\ r.status < 300

\* response.status_code != 201 is the failure
IsCreated(r) == r.kind = "response" /\ r.status = HTTP_CREATED

\* mutation: a post that did not create the ticket is tried a second time
PostTicket_retry(r) ==
    /\ pc = "ticket_post"
    /\ response' = r
    /\ ticketCalls' = Append(ticketCalls, ticket[1])
    /\ IF ~IsCreated(r) /\ ticketCalls = <<>>
       THEN UNCHANGED <<pc, outcome, result, logs>>
       ELSE Return(Returned(refund_ids),
                   IF r.kind = "raise" THEN <<"exception:failed_to_create_ticket">>
                   ELSE IF ~IsCreated(r) THEN <<"error:failed_to_create_ticket">>
                   ELSE <<"debug:created_ticket">>)
    /\ UNCHANGED <<handler, product, config_flag, gateVars, processVars, openCalls,
                   approveCalls, notifyCalls, configReads, themed, zendesk, url_root,
                   caller_tags, ticket>>

\* create_zendesk_ticket, lines 268-278
PostTicket(r) ==
    /\ pc = "ticket_post"
    /\ response' = r
    /\ ticketCalls' = Append(ticketCalls, ticket[1])
    /\ Return(Returned(refund_ids),
              IF r.kind = "raise" THEN <<"exception:failed_to_create_ticket">>
              ELSE IF ~IsCreated(r) THEN <<"error:failed_to_create_ticket">>
              ELSE <<"debug:created_ticket">>)
    /\ UNCHANGED <<handler, product, config_flag, gateVars, processVars, openCalls,
                   approveCalls, notifyCalls, configReads, themed, zendesk, url_root,
                   caller_tags, ticket>>

\* the stored configuration is changed by an administrator, never by this code
ConfigChanged ==
    /\ pc \notin {"idle", "done"}
    /\ config_flag' = ~config_flag
    /\ UNCHANGED <<pc, handler, product, gateVars, processVars, calls, notifyVars,
                   logs, outcome, result>>

UserOutcomes == Users \cup {None, AnonymousUser, "raise"}

Next ==
    \/ \E h \in {"order", "entitlement"}, p \in Products \cup {NoProduct} : Send(h, p)
    \/ \E c \in {"true", "false", "raise"} : CheckConfigured(c)
    \/ \E r \in {"true", "false", "raise"} : CheckRefundable(r)
    \/ \E u \in UserOutcomes : OrderResolveUser(u)
    \/ \E u \in UserOutcomes : EntitlementResolveUser(u)
    \/ \E ok \in BOOLEAN : ConstructClient(ok)
    \/ \E ids \in RefundLists : OpenRefund(ids)
    \/ OpenRefundFails
    \/ \E ok \in BOOLEAN : ReadConfig(ok)
    \/ \E ok \in BOOLEAN : Approve(ok)
    \/ Gate
    \/ \E t \in {"true", "false", "raise"} : CheckThemed(t)
    \/ \E ok \in BOOLEAN, root \in UrlRoots : BuildNotification(ok, root)
    \/ CheckZendesk
    \/ \E r \in {TransportError} \cup {Response(s) : s \in StatusCodes} : PostTicket(r)
    \/ ConfigChanged

Spec == Init /\ [][Next]_vars

\* create_zendesk_ticket called on its own, with any list of tags
TagsInit ==
    /\ pc = "zendesk"
    /\ handler = Unset
    /\ product = NoProduct
    /\ config_flag \in BOOLEAN
    /\ configured = Unset
    /\ refundable = Unset
    /\ resolved = Unset
    /\ request_user = Unset
    /\ client_user = Unset
    /\ opened = Unset
    /\ refund_ids = <<>>
    /\ auto_approve = Unset
    /\ idx = 0
    /\ approved = <<>>
    /\ refunds_requiring_approval = <<>>
    /\ openCalls = <<>>
    /\ approveCalls = <<>>
    /\ notifyCalls = <<>>
    /\ ticketCalls = <<>>
    /\ configReads = 0
    /\ themed = Unset
    /\ zendesk \in {"true", "false"}
    /\ url_root = NoRoot
    /\ caller_tags \in TagLists
    /\ ticket = <<[requester |-> "alice",
                   body |-> generate_refund_notification_body("alice", NoRoot, <<>>),
                   tags |-> caller_tags]>>
    /\ response = NoResponse
    /\ logs = <<>>
    /\ outcome = "running"
    /\ result = NoResult

\* the receivers, and create_zendesk_ticket called on its own
TagsSpec == (Init \/ TagsInit) /\ [][Next]_vars

\* ------------------------------------------------------------- properties
NoOutboundCalls == openCalls = <<>> /\ approveCalls = <<>> /\ ticketCalls = <<>>

RECURSIVE Count(_, _)
Count(s, x) ==
    IF s = <<>> THEN 0
    ELSE (IF s[1] = x THEN 1 ELSE 0) + Count(Tail(s), x)

ErrorRecords == {"exception:unexpected", "exception:approval_failed",
                 "exception:failed_to_create_ticket", "error:failed_to_create_ticket"}
NoErrorLogged == \A i \in 1..Len(logs) : logs[i] \notin ErrorRecords

\* C1: no exception ever leaves a receiver, whatever its collaborators do:
\* the receiver never ends by raising.
C1_NothingEscapes == outcome # "raised"

\* C2: when the commerce service is not configured, or the product is absent
\* or not refundable, no refund is opened, no refund is approved and no ticket
\* is created (nor notification attempted), and the receiver is over as soon
\* as the check has answered.
C2_NoCallWhenGated ==
    /\ (configured = "false" \/ (pc # "idle" /\ ~product.present) \/ refundable = "false")
           => NoOutboundCalls /\ notifyCalls = <<>> /\ configReads = 0
    /\ (configured = "false" \/ refundable = "false")
           => pc = "done" /\ outcome = "returned"

C2_Witness ==
    /\ pc = "done"
    /\ outcome = "returned"
    /\ configured = "true"
    /\ product.present
    /\ refundable = "false"

\* C3: in handle_refund_order, when the acting user is the anonymous
\* placeholder although the service is configured and the enrollment is
\* refundable, the receiver returns with no outbound call and logs nothing.
C3_AnonymousIsSilent ==
    (handler = "order" /\ request_user = AnonymousUser)
        => /\ pc = "done"
           /\ outcome = "returned"
           /\ NoOutboundCalls
           /\ notifyCalls = <<>>
           /\ NoErrorLogged
           /\ logs = <<>>

C3_Witness ==
    /\ handler = "order"
    /\ configured = "true"
    /\ refundable = "true"
    /\ resolved = AnonymousUser
    /\ request_user = AnonymousUser
    /\ pc = "done"

\* C4: in handle_refund_entitlement a refund is opened (or anything else is
\* called) only when get_request_user returned a user and that user is the
\* owner of the entitlement; there is no fallback to the owner.
C4_EntitlementOnlyByOwner ==
    handler = "entitlement"
        => \/ NoOutboundCalls /\ notifyCalls = <<>> /\ client_user = Unset
           \/ resolved \in Users /\ resolved = product.user

C4_Witness ==
    /\ handler = "entitlement"
    /\ pc = "done"
    /\ refundable = "true"
    /\ resolved \in Users
    /\ resolved # product.user
    /\ openCalls = <<>>

EnrollmentRefundDue ==
    /\ handler = "order"
    /\ configured = "true"
    /\ refundable = "true"
    /\ resolved \in Users \cup {None}

C6_EmptyIsTerminal ==
    (opened = "returned" /\ refund_ids = <<>>)
        => /\ pc = "done"
           /\ outcome = "returned"
           /\ result = Returned(<<>>)
           /\ approveCalls = <<>>
           /\ notifyCalls = <<>>
           /\ ticketCalls = <<>>
           /\ configReads = 0
           /\ Count(logs, "info:skipping_notification") = 0
           /\ NoErrorLogged

C6_Witness ==
    /\ opened = "returned"
    /\ refund_ids = <<>>
    /\ Len(openCalls) = 1
    /\ handler = "entitlement"
    /\ pc = "done"

\* C7: when enable_automatic_refund_approval was read as false, no approval
\* is ever attempted and the refunds requiring approval are the opened
\* refunds, all of them and in the same order.
C7_DisabledKeepsAll ==
    auto_approve = "false"
        => /\ approveCalls = <<>>
           /\ approved = <<>>
           /\ refunds_requiring_approval = refund_ids

C7_Witness ==
    /\ auto_approve = "false"
    /\ pc = "done"
    /\ Len(refund_ids) >= 2
    /\ refunds_requiring_approval = refund_ids

LoopOver == auto_approve = "true" /\ pc # "approve"

\* C8: with automatic approval enabled the approvals attempted are at every
\* moment a prefix of the opened refunds, one attempt per position, and once
\* the loop is over every opened refund has had exactly one attempt, whatever
\* the attempts' outcomes.
C8_EveryRefundAttemptedOnce ==
    auto_approve = "true"
        => /\ Len(approveCalls) <= Len(refund_ids)
           /\ approveCalls = SubSeq(refund_ids, 1, Len(approveCalls))
           /\ Len(approved) = Len(approveCalls)
           /\ LoopOver => approveCalls = refund_ids

C8_Witness ==
    /\ LoopOver
    /\ Len(refund_ids) >= 2
    /\ approved[1] = FALSE
    /\ approveCalls = refund_ids

\* the refunds at the positions whose approval failed
RECURSIVE FailedOf(_, _)
FailedOf(ids, oks) ==
    IF ids = <<>> \/ oks = <<>> THEN <<>>
    ELSE (IF oks[1] THEN <<>> ELSE <<ids[1]>>) \o FailedOf(Tail(ids), Tail(oks))

\* C9: with automatic approval enabled the refunds requiring approval are
\* exactly the refunds whose approval failed, in order: none when every
\* approval succeeded.
C9_RequiringIsFailed ==
    auto_approve = "true"
        => /\ refunds_requiring_approval = FailedOf(refund_ids, approved)
           /\ (LoopOver /\ \A i \in 1..Len(approved) : approved[i])
                  => refunds_requiring_approval = <<>>

C9_Witness ==
    /\ LoopOver
    /\ pc = "done"
    /\ Len(refund_ids) >= 2
    /\ approved[1] = FALSE
    /\ approved[2] = TRUE
    /\ refunds_requiring_approval = <<refund_ids[1]>>

GateDone ==
    \/ pc \in {"themed", "body", "zendesk", "ticket_post"}
    \/ pc = "done" /\ result.kind = "list" /\ refund_ids # <<>>

Suppressions == Count(logs, "info:skipping_notification")

NotificationRaised == themed \in {"true", "raise"} \/ (pc = "done" /\ themed = "false" /\ ticket = <<>>)

C12_ThemedFailsFast ==
    themed = "true"
        => /\ ticket = <<>>
           /\ ticketCalls = <<>>
           /\ response = NoResponse
           /\ Len(notifyCalls) = 1
           /\ pc = "done"
           /\ Count(logs, "warning:could_not_send") = 1
           /\ Count(logs, "debug:zendesk_not_configured") = 0

C12_Witness ==
    /\ themed = "true"
    /\ pc = "done"
    /\ handler = "order"
    /\ ticketCalls = <<>>
    /\ Len(notifyCalls) = 1

TicketFailures ==
    Count(logs, "exception:failed_to_create_ticket") + Count(logs, "error:failed_to_create_ticket")

\* C13 as stated: with the Zendesk settings absent, a notification attempt
\* posts nothing, raises nothing and logs nothing but the debug record,
\* themed site or not.
C13_SilentWhenUnconfigured ==
    (zendesk = "false" /\ notifyCalls # <<>> /\ pc = "done")
        => /\ ticketCalls = <<>>
           /\ Count(logs, "warning:could_not_send") = 0
           /\ TicketFailures = 0
           /\ Count(logs, "debug:zendesk_not_configured") = 1

\* C13 as amended: with the Zendesk settings absent nothing is ever posted,
\* and create_zendesk_ticket, once called, posts nothing, raises nothing and
\* logs only the debug record; send_refund_notification calls it only when
\* the request is not on a themed site.
C13_SilentWhenUnconfiguredAndReached ==
    /\ zendesk = "false" => ticketCalls = <<>> /\ response = NoResponse
    /\ (zendesk = "false" /\ ticket # <<>> /\ pc = "done")
           => /\ themed = "false"
              /\ outcome = "returned"
              /\ result = Returned(refund_ids)
              /\ Count(logs, "warning:could_not_send") = 0
              /\ Count(logs, "exception:unexpected") = 0
              /\ TicketFailures = 0
              /\ Count(logs, "debug:zendesk_not_configured") = 1

C13_Witness ==
    /\ zendesk = "false"
    /\ themed = "false"
    /\ ticket # <<>>
    /\ pc = "done"
    /\ handler = "order"
    /\ Count(logs, "debug:zendesk_not_configured") = 1

\* C14: create_zendesk_ticket posts at most once and returns normally
\* whatever the post does: a transport error and a status other than 201 are
\* each logged as a failure, only 201 is logged as success, and none of them
\* reaches _process_refund as an exception.
C14_PostNeverRaises ==
    /\ Len(ticketCalls) <= 1
    /\ response # NoResponse
           => /\ Len(ticketCalls) = 1
              /\ pc = "done"
              /\ outcome = "returned"
              /\ result = Returned(refund_ids)
              /\ Count(logs, "warning:could_not_send") = 0
              /\ Count(logs, "exception:unexpected") = 0
              /\ logs[Len(logs)] =
                     (IF response.kind = "raise" THEN "exception:failed_to_create_ticket"
                      ELSE IF response.status = 201 THEN "debug:created_ticket"
                      ELSE "error:failed_to_create_ticket")

C14_Witness ==
    /\ response.kind = "response"
    /\ response.status = 200
    /\ handler = "entitlement"
    /\ pc = "done"
    /\ logs[Len(logs)] = "error:failed_to_create_ticket"

C15_Step ==
    /\ openCalls' # openCalls
           => /\ openCalls = <<>> /\ Len(openCalls') = 1
              /\ approveCalls = <<>> /\ notifyCalls = <<>> /\ ticketCalls = <<>>
              /\ UNCHANGED <<approveCalls, notifyCalls, ticketCalls>>
    /\ approveCalls' # approveCalls
           => /\ opened = "returned" /\ refund_ids # <<>>
              /\ notifyCalls = <<>> /\ ticketCalls = <<>>
              /\ UNCHANGED <<openCalls, notifyCalls, ticketCalls>>
    /\ notifyCalls' # notifyCalls
           => /\ notifyCalls = <<>> /\ Len(notifyCalls') = 1 /\ ticketCalls = <<>>
              /\ UNCHANGED <<openCalls, approveCalls, ticketCalls>>
    /\ ticketCalls' # ticketCalls
           => /\ ticketCalls = <<>> /\ Len(ticketCalls') = 1
              /\ Len(notifyCalls) = 1
              /\ UNCHANGED <<openCalls, approveCalls, notifyCalls>>
    /\ (ticketCalls # <<>> \/ opened = "raise")
           => UNCHANGED <<openCalls, approveCalls, notifyCalls, ticketCalls>>

\* C15: in the handling of one event open_refund is called at most once and
\* before anything else; an approval is attempted only after open_refund
\* returned a non-empty list and before the notification attempt; at most
\* one ticket is posted, after which no outbound call is made; after
\* open_refund raised no outbound call is made.
C15_CallsAreOrdered == [][C15_Step]_vars

C15_Witness ==
    /\ pc = "done"
    /\ Len(openCalls) = 1
    /\ Len(approveCalls) = 2
    /\ Len(notifyCalls) = 1
    /\ Len(ticketCalls) = 1

\* the base followed by the path, as text
ConcatUrl(root, id) ==
    [origin |-> root.origin, path |-> root.path \o <<"dashboard", "refunds">>, id |-> id]

\* C16 as stated: the ticket body has one url per refund requiring approval,
\* in order, each being the base followed by /dashboard/refunds/{id}/.
C16_UrlsAreBasePlusPath ==
    (ticket # <<>> /\ handler # Unset)
        => ticket[1].body.urls =
               [i \in 1..Len(refunds_requiring_approval) |->
                    ConcatUrl(url_root, refunds_requiring_approval[i])]

\* C16 as amended: the ticket body has exactly one url per refund requiring
\* approval, in the same order and none for any other refund, each made of
\* the scheme and host of the base followed by /dashboard/refunds/{id}/ (a
\* path in the base is dropped by urljoin).
C16_UrlsOfRequiringApproval ==
    /\ (ticket # <<>> /\ handler # Unset)
           => /\ notifyCalls = <<refunds_requiring_approval>>
              /\ ticket[1].body.urls =
                     [i \in 1..Len(refunds_requiring_approval) |->
                          [origin |-> url_root.origin,
                           path |-> <<"dashboard", "refunds">>,
                           id |-> refunds_requiring_approval[i]]]
              /\ auto_approve = "true"
                     => Len(ticket[1].body.urls) = Len(approved) - Count(approved, TRUE)
    /\ \A i \in 1..Len(ticketCalls) : ticketCalls[i].body = ticket[1].body

C16_Witness ==
    /\ Len(ticketCalls) = 1
    /\ handler = "order"
    /\ auto_approve = "true"
    /\ approved = <<TRUE, FALSE>>
    /\ url_root.path # <<>>
    /\ Len(ticketCalls[1].body.urls) = 1
    /\ ticketCalls[1].body.urls[1].id = refund_ids[2]

\* C17: when the requester of an unenrollment is another user than the
\* student unenrolled, the commerce service is called as the requester.
C17_CalledAsRequester ==
    (handler = "order" /\ resolved \in Users /\ resolved # product.user)
        => \A i \in 1..Len(openCalls) : openCalls[i].auth = request_user

C18_Step ==
    /\ configReads' <= 1
    /\ approveCalls' # <<>> => configReads' = 1 /\ auto_approve' = "true"
    /\ configReads' # configReads => approveCalls = <<>> /\ auto_approve = Unset
    /\ auto_approve # Unset => auto_approve' = auto_approve
    /\ config_flag' # config_flag
           => UNCHANGED <<pc, handler, product, gateVars, processVars, calls, notifyVars,
                          logs, outcome, result>>
    /\ (pc' \notin {"approve"} /\ auto_approve' = "true") => approveCalls' = refund_ids'
    /\ auto_approve' = "false" => approveCalls' = <<>>

\* C18: the flag is read at most once in a pass and before any approval, the
\* value read is kept to the end of the pass, the stored flag changes only in
\* steps that are not steps of this code, and whatever the stored flag
\* becomes meanwhile either every opened refund gets an approval attempt or
\* none does, according to the value read.
C18_FlagReadOnce == [][C18_Step]_vars

C18_Witness ==
    /\ pc = "done"
    /\ auto_approve = "true"
    /\ config_flag = FALSE
    /\ Len(refund_ids) >= 2
    /\ approveCalls = refund_ids

C19_Sent ==
    (pc = "ticket_post" \/ ticketCalls # <<>>)
        => LET sent == ticket[1].tags
           IN  /\ "LMS" \in ToSet(sent)
               /\ ToSet(caller_tags) \subseteq ToSet(sent)
               /\ \A i, j \in 1..Len(sent) : sent[i] = sent[j] => i = j
               /\ \A i \in 1..Len(ticketCalls) : ticketCalls[i].tags = sent
               /\ notifyCalls # <<>> => ToSet(sent) = {"LMS", "auto_refund"}

\* C19: the tags of a ticket contain 'LMS' and every tag the caller gave,
\* each once; the caller's list is not changed by create_zendesk_ticket; a
\* ticket sent by send_refund_notification has exactly the tags 'LMS' and
\* 'auto_refund'.
C19_Tags ==
    [][C19_Sent' /\ (pc \in {"zendesk", "ticket_post"} => caller_tags' = caller_tags)]_vars

C19_Witness ==
    /\ Len(ticketCalls) = 1
    /\ handler = Unset
    /\ Len(caller_tags) = 3
    /\ caller_tags[1] = caller_tags[2]
    /\ "LMS" \in ToSet(caller_tags)
    /\ "billing" \in ToSet(ticketCalls[1].tags)
====
